---- MODULE Spec2Model ----
(***************************************************************************)
(* The T4 index pipeline:                                                  *)
(*   - calculate_t4_index.py  : loader, normalizer and index calculator    *)
(*   - push_t4_to_supabase.py : Publish Gate + durable-store adapter       *)
(*   - push_to_contract.py    : on-chain oracle updater + audit log        *)
(* Prices are held in cents (the calculator publishes round(x, 2)); where  *)
(* the code multiplies or compares Python floats the model computes the    *)
(* IEEE-754 binary64 result bit for bit.                                   *)
(***************************************************************************)
EXTENDS Integers, Sequences, FiniteSets, TLC

(***************************************************************************)
(* Python float (binary64).  A value is [m, e] = m * 2^e with the 53-bit   *)
(* significand m kept as four little-endian limbs of 14 bits; zero is the  *)
(* all-zero significand.  Only non-negative finite values occur.           *)
(***************************************************************************)
Base == 2^14

FZero == [m |-> <<0, 0, 0, 0>>, e |-> 0]

IsFZero(x) == x.m = <<0, 0, 0, 0>>

\* carry propagation over column sums cols[i..Len(cols)]
RECURSIVE BigCarry(_, _, _)
BigCarry(cols, i, carry) ==
    IF i > Len(cols) THEN <<>>
    ELSE LET cur == cols[i] + carry
         IN  <<cur % Base>> \o BigCarry(cols, i + 1, cur \div Base)

\* schoolbook product of two 4-limb significands: 8 limbs
BigMul(a, b) ==
    LET term(k, i) == IF (k + 1 - i) \in 1..4 THEN a[i] * b[k + 1 - i] ELSE 0
        cols == [k \in 1..8 |-> term(k, 1) + term(k, 2) + term(k, 3) + term(k, 4)]
    IN  BigCarry(cols, 1, 0)

\* quotient and remainder of the limbs a[1..i] (r carried in from above) by a small d
RECURSIVE BigDivRem(_, _, _, _)
BigDivRem(a, d, i, r) ==
    IF i = 0 THEN [q |-> <<>>, r |-> r]
    ELSE LET cur  == r * Base + a[i]
             rest == BigDivRem(a, d, i - 1, cur % d)
         IN  [q |-> Append(rest.q, cur \div d), r |-> rest.r]

\* c * 2^k as 6 limbs, for a small c
BigShl(c, k) ==
    LET i == k \div 14
        v == c * 2^(k % 14)
    IN  [j \in 1..6 |-> IF j = i + 1 THEN v % Base
                        ELSE IF j = i + 2 THEN v \div Base
                        ELSE 0]

\* significand + 1, renormalised when it reaches 2^53
FRoundUp(m, e) ==
    LET m1 == BigCarry(<<m[1] + 1, m[2], m[3], m[4]>>, 1, 0)
    IN  IF m1 = <<0, 0, 0, 2^11>>
        THEN [m |-> <<0, 0, 0, 2^10>>, e |-> e + 1]
        ELSE [m |-> m1, e |-> e]

\* the double nearest to the decimal c/100 (round half to even), as float("0.cc")
\* and as the literals 0.80 and 1.20 are read
FloatOfCents(c) ==
    IF c = 0 THEN FZero
    ELSE LET t == CHOOSE u \in -8..8 :
                     \/ u >= 0 /\ 100 * 2^u <= c /\ c < 200 * 2^u
                     \/ u < 0 /\ 100 <= c * 2^(-u) /\ c * 2^(-u) < 200
             k  == 52 - t
             dr == BigDivRem(BigShl(c, k), 100, 6, 0)
             q  == SubSeq(dr.q, 1, 4)
             up == 2 * dr.r > 100 \/ (2 * dr.r = 100 /\ q[1] % 2 = 1)
         IN  IF up THEN FRoundUp(q, -k) ELSE [m |-> q, e |-> -k]

\* x * y rounded to nearest, ties to even
FMul(x, y) ==
    IF IsFZero(x) \/ IsFZero(y) THEN FZero
    ELSE LET P  == BigMul(x.m, y.m)
             s  == IF P[8] >= 2^7 THEN 53 ELSE 52
             b  == s % 14
             limb(i) == (P[i + 3] \div 2^b) + ((IF i + 4 <= 8 THEN P[i + 4] ELSE 0) % 2^b) * 2^(14 - b)
             m0 == <<limb(1), limb(2), limb(3), limb(4)>>
             guard  == (P[4] \div 2^(b - 1)) % 2 = 1
             sticky == P[4] % 2^(b - 1) # 0 \/ P[1] # 0 \/ P[2] # 0 \/ P[3] # 0
             up == guard /\ (sticky \/ m0[1] % 2 = 1)
             e  == x.e + y.e + s
         IN  IF up THEN FRoundUp(m0, e) ELSE [m |-> m0, e |-> e]

\* x <= y
FLe(x, y) ==
    IF IsFZero(x) THEN TRUE
    ELSE IF IsFZero(y) THEN FALSE
    ELSE IF x.e # y.e THEN x.e < y.e
    ELSE \/ x.m = y.m
         \/ \E i \in 1..4 : /\ x.m[i] < y.m[i]
                            /\ \A j \in (i + 1)..4 : x.m[j] = y.m[j]

\* x < y
FLt(x, y) == ~FLe(y, x)

\* limb i of a, 0 beyond its length
Limb(a, i) == IF i \in 1..Len(a) THEN a[i] ELSE 0

\* number of significant bits of a (0 for zero)
BigBits(a) ==
    IF \A i \in 1..Len(a) : a[i] = 0 THEN 0
    ELSE LET h == CHOOSE i \in 1..Len(a) : a[i] # 0 /\ \A j \in (i + 1)..Len(a) : a[j] = 0
             b == CHOOSE c \in 1..14 : 2^(c - 1) <= a[h] /\ a[h] < 2^c
         IN  14 * (h - 1) + b

\* floor(a / 2^s) as n limbs
BigShr(a, s, n) ==
    LET i == s \div 14
        b == s % 14
    IN  [j \in 1..n |-> (Limb(a, j + i) \div 2^b) + (Limb(a, j + i + 1) % 2^b) * 2^(14 - b)]

\* a * 2^s as n limbs
BigShift(a, s, n) ==
    LET i == s \div 14
        b == s % 14
    IN  [j \in 1..n |-> (Limb(a, j - i) % 2^(14 - b)) * 2^b
                        + (Limb(a, j - i - 1) \div 2^(14 - b))]

\* bit k of a, and whether any bit below k is set
BigBit(a, k) == (Limb(a, k \div 14 + 1) \div 2^(k % 14)) % 2

BigLow(a, k) ==
    \E j \in 1..Len(a) : \/ j <= k \div 14 /\ a[j] # 0
                         \/ j = k \div 14 + 1 /\ a[j] % 2^(k % 14) # 0

\* a + b as n limbs
BigAdd(a, b, n) == BigCarry([j \in 1..n |-> Limb(a, j) + Limb(b, j)], 1, 0)

\* a - b over the limbs a[i..Len(a)], for a >= b
RECURSIVE BigSub(_, _, _, _)
BigSub(a, b, i, borrow) ==
    IF i > Len(a) THEN <<>>
    ELSE LET cur == a[i] - Limb(b, i) - borrow
         IN  IF cur < 0 THEN <<cur + Base>> \o BigSub(a, b, i + 1, 1)
             ELSE <<cur>> \o BigSub(a, b, i + 1, 0)

\* a < b, both of n limbs
BigLess(a, b, n) ==
    \E i \in 1..n : /\ Limb(a, i) < Limb(b, i)
                    /\ \A j \in (i + 1)..n : Limb(a, j) = Limb(b, j)

\* the double nearest to N * 2^e (ties to even), N a limb sequence
FRound(N, e) ==
    LET len == BigBits(N)
    IN  IF len = 0 THEN FZero
        ELSE IF len <= 53
        THEN LET m == BigShift(N, 53 - len, 4)
             IN  [m |-> <<m[1], m[2], m[3], m[4]>>, e |-> e - (53 - len)]
        ELSE LET s  == len - 53
                 q  == BigShr(N, s, 4)
                 m0 == <<q[1], q[2], q[3], q[4]>>
                 up == BigBit(N, s - 1) = 1 /\ (BigLow(N, s - 1) \/ m0[1] % 2 = 1)
             IN  IF up THEN FRoundUp(m0, e + s) ELSE [m |-> m0, e |-> e + s]

\* x + y
FAdd(x, y) ==
    IF IsFZero(x) THEN y
    ELSE IF IsFZero(y) THEN x
    ELSE LET hi == IF x.e >= y.e THEN x ELSE y
             lo == IF x.e >= y.e THEN y ELSE x
             d  == hi.e - lo.e
         IN  IF d > 60 THEN hi
             ELSE FRound(BigAdd(BigShift(hi.m, d, 9), lo.m, 9), lo.e)

\* x - y, for x >= y
FSub(x, y) ==
    IF IsFZero(y) THEN x
    ELSE LET d == x.e - y.e
         IN  IF d > 60 THEN x
             ELSE FRound(BigSub(BigShift(x.m, d, 9), y.m, 1, 0), y.e)

\* a * c as n limbs, for a small c
BigMulSmall(a, c, n) == BigCarry([j \in 1..n |-> Limb(a, j) * c], 1, 0)

\* the largest q <= qhat with q * D <= R
RECURSIVE DivDigit(_, _, _)
DivDigit(R, D, qhat) ==
    IF BigLess(R, BigMulSmall(D, qhat, 5), 5) THEN DivDigit(R, D, qhat - 1) ELSE qhat

\* long division in base 2^14 of R (below D * 2^14) by D (top limb at least 2^13):
\* k quotient digits are put in front of Q, the quotient digit being estimated
\* from the leading limbs
RECURSIVE LongDiv(_, _, _, _)
LongDiv(R, D, Q, k) ==
    IF k = 0 THEN [q |-> Q, r |-> R]
    ELSE LET est == (R[5] * Base + R[4]) \div D[4]
             q   == DivDigit(R, D, IF est < Base THEN est ELSE Base - 1)
             R1  == BigSub(R, BigMulSmall(D, q, 5), 1, 0)
         IN  IF k = 1 THEN [q |-> <<q>> \o Q, r |-> R1]
             ELSE LongDiv(<<0>> \o SubSeq(R1, 1, 4), D, <<q>> \o Q, k - 1)

\* x / y, for y # 0: the significands are shifted left by 3 bits, the quotient q
\* has 5 digits and x.m / y.m = (q + fraction) / 2^56
FDiv(x, y) ==
    IF IsFZero(x) THEN FZero
    ELSE LET d == LongDiv(BigShift(x.m, 3, 5), BigShift(y.m, 3, 5), <<>>, 5)
             sticky == IF d.r = <<0, 0, 0, 0, 0>> THEN 0 ELSE 1
         IN  FRound(BigAdd(BigAdd(d.q, d.q, 5), <<sticky>>, 5), x.e - y.e - 57)

\* round(x, ndigits) for scale = 10^ndigits, as the integer round(x, ndigits) * scale:
\* the decimal nearest to the exact value of x, ties to even
RoundDec(x, scale) ==
    IF IsFZero(x) THEN 0
    ELSE LET P  == BigMul(x.m, <<scale, 0, 0, 0>>)
             s  == -x.e
             q  == BigShr(P, s, 3)
             n  == q[1] + q[2] * Base + q[3] * Base * Base
             up == BigBit(P, s - 1) = 1 /\ (BigLow(P, s - 1) \/ n % 2 = 1)
         IN  IF up THEN n + 1 ELSE n

(***************************************************************************)
(* Bounds of the model.                                                    *)
(***************************************************************************)
\* publish runs of push_t4_to_supabase.py
MaxRuns == 2

\* final_index_price values (cents) a report may carry
Prices == {0, 50, 60, 61, 75, 90}

\* the report has no usable "final_index_price" (index_data.get returns None)
NoPrice == -1

VARIABLES
    \* ---- durable store (Supabase)
    t4_index_prices,      \* rows of table t4_index_prices in created_at order
    t4_provider_prices,   \* rows of table t4_provider_prices
    \* ---- one run of push_t4_to_supabase.py
    pc,                   \* position of the run
    index_data,           \* what load_index_data returned
    decision,             \* Publish Gate: "none" | "accepted" | "rejected"
    index_id,             \* id returned by the index insert of this run (0: none)
    result,               \* push_to_supabase's return: "none" | "true" | "false"
    exit_code,            \* exit status of the script (-1 while running)
    cause,                \* what ended the run
    runs,                 \* runs started
    index_before,         \* t4_index_prices when the run started
    provider_before,      \* t4_provider_prices when the run started
    outcomes              \* <<cause, result, exit_code>> of the finished runs

storeVars == <<t4_index_prices, t4_provider_prices>>
pushVars == <<pc, index_data, decision, index_id, result, exit_code, cause, runs,
              index_before, provider_before, outcomes>>

VARIABLES
    \* ---- chain
    asset_registered,     \* isAssetRegistered(T4_ASSET_ID)
    chain_price,          \* getPriceData(T4_ASSET_ID).price (FZero: not set)
    chain_txs,            \* updatePrice transactions broadcast, in order
    \* ---- local file t4_contract_update_log.json
    audit_log,
    \* ---- one run of push_to_contract.py
    opc,                  \* position of the run
    args,                 \* command line
    price,                \* price to push (cents), NoPrice until determined
    reg_checked,          \* isAssetRegistered returned true in this run
    verified,             \* the read-back equalled the submitted value
    log_write,            \* _log_update of this run: "none" | "ok" | "failed"
    oexit,                \* exit status (-1 while running)
    ocause,               \* what ended the run
    oruns,                \* runs started
    txs_before,           \* Len(chain_txs) when the run started
    log_before,           \* audit_log when the run started
    \* ---- _log_update called repeatedly
    log_calls,            \* calls made
    logged                \* every entry whose write succeeded, in order

chainVars == <<asset_registered, chain_price, chain_txs>>
oracleVars == <<opc, args, price, reg_checked, verified, log_write, oexit, ocause,
                oruns, txs_before, log_before>>
logVars == <<log_calls, logged>>

\* everything push_to_contract.py reads or writes
oracleSide == <<chainVars, audit_log, oracleVars, logVars>>

VARIABLES
    \* ---- files of the working directory
    combined_file,        \* t4_combined_prices.json
    price_files,          \* the *_t4_prices.json files, in glob order
    report_file,          \* t4_weighted_index.json
    \* ---- one run of calculate_t4_index.py
    cpc,                  \* position of the run
    prices,               \* what load_prices returned (dict, in insertion order)
    hyperscaler_data,     \* dict hs -> original, discounted, effective, weight, contribution
    hs_weighted_sum,
    hs_weight_used,
    neocloud_data,        \* dict provider -> price, raw_weight
    nc_weighted_sum,
    nc_weight_used,
    final_index,
    report_before         \* t4_weighted_index.json when the run started

fileVars == <<combined_file, price_files, report_file>>
calcVars == <<cpc, prices, hyperscaler_data, hs_weighted_sum, hs_weight_used,
              neocloud_data, nc_weighted_sum, nc_weight_used, final_index,
              report_before>>

\* everything calculate_t4_index.py reads or writes
calcSide == <<fileVars, calcVars>>

vars == <<storeVars, pushVars, oracleSide, calcSide>>

(***************************************************************************)
(* push_to_contract.py: the on-chain oracle updater.                       *)
(***************************************************************************)
\* runs of push_to_contract.py
MaxOracleRuns == 1

\* prices (cents) given by --price or found in the CSV
OraclePrices == {0, 50, 90}

\* the CSV file named by --csv
CsvFiles ==
    {[state |-> st, price |-> NoPrice] : st \in {"missing", "empty", "no_column", "invalid"}}
    \cup {[state |-> "ok", price |-> p] : p \in OraclePrices}

\* parsed command line, lines 373-388
Args == [read_only : BOOLEAN, price : OraclePrices \cup {NoPrice}, csv : CsvFiles]

NoArgs == [read_only |-> FALSE, price |-> NoPrice, csv |-> [state |-> "missing", price |-> NoPrice]]

\* float(10**18) = 5^18 * 2^18, exactly representable
Float1e18 == [m |-> <<2048, 7483, 5846, 1776>>, e |-> 7]

\* prices (cents) logged when _log_update is called repeatedly
LogPrices == {50}

\* int(price_usd * (10**PRICE_DECIMALS)), lines 228 and 321: the product is at
\* least 2^53 for a price of one cent or more, so the float is the integer m * 2^e
\* (tabulated over the prices of the model, so that it is computed once)
PriceScaledTable ==
    [c \in OraclePrices \cup LogPrices |-> FMul(FloatOfCents(c), Float1e18)]

PriceScaled(price_usd) == PriceScaledTable[price_usd]

\* retention of the audit log, logs[-100:]
LogCap == 100

\* faulty variant: logs[:LogCap], which keeps the oldest entries
LastEntries_KeepOldest(logs) ==
    IF Len(logs) <= LogCap THEN logs ELSE SubSeq(logs, 1, LogCap)

\* logs[-LogCap:]
LastEntries(logs) ==
    IF Len(logs) <= LogCap THEN logs
    ELSE SubSeq(logs, Len(logs) - LogCap + 1, Len(logs))

\* _log_update, lines 313-349: the content of t4_contract_update_log.json after the
\* call (a write that fails leaves the file as it was)
log_update(logs, price_usd, tx_hash, block_number, write_ok) ==
    LET log_entry == [index_price_usd    |-> price_usd,
                      index_price_scaled |-> PriceScaled(price_usd),
                      tx_hash            |-> tx_hash,
                      block_number       |-> block_number]
    IN  IF write_ok THEN LastEntries(Append(logs, log_entry)) ELSE logs

\* sys.exit(code)
Exit(code, c) ==
    /\ opc' = "done"
    /\ oexit' = code
    /\ ocause' = c

\* main, lines 352-401: parse the command line, require the signing key
oracle_start ==
    /\ opc \in {"idle", "done"}
    /\ oruns < MaxOracleRuns
    /\ oruns' = oruns + 1
    /\ txs_before' = Len(chain_txs)
    /\ log_before' = audit_log
    /\ price' = NoPrice
    /\ reg_checked' = FALSE
    /\ verified' = FALSE
    /\ log_write' = "none"
    /\ UNCHANGED <<calcSide, storeVars, pushVars, chainVars, audit_log, logVars>>
    /\ \E a \in Args, PRIVATE_KEY \in BOOLEAN :
          /\ args' = a
          /\ IF ~PRIVATE_KEY
             THEN Exit(1, "no_key")
             ELSE /\ opc' = "init"
                  /\ oexit' = -1
                  /\ ocause' = "running"

\* faulty variant: the constructor does not look at isAssetRegistered's answer
InitOutcome_NoCheck(rpc, is_registered) ==
    IF rpc = "unreachable" THEN "connection_error"
    ELSE IF rpc = "call_raises" THEN "init_error"
    ELSE "ready"

\* T4OraclePriceUpdater.__init__, lines 134-176, as main handles it, lines 403-419:
\* rpc is what the node does, is_registered what isAssetRegistered returns
InitOutcome(rpc, is_registered) ==
    IF rpc = "unreachable" THEN "connection_error"       \* line 137, ConnectionError
    ELSE IF rpc = "call_raises" THEN "init_error"        \* any other exception
    ELSE IF ~is_registered THEN "not_registered"         \* line 166, ValueError
    ELSE "ready"

oracle_init ==
    /\ opc = "init"
    /\ UNCHANGED <<calcSide, storeVars, pushVars, chainVars, audit_log, logVars, args, price,
                   verified, log_write, oruns, txs_before, log_before>>
    /\ \E rpc \in {"ok", "unreachable", "call_raises"} :
          LET outcome == InitOutcome(rpc, asset_registered) IN
          IF outcome = "ready"
          THEN /\ reg_checked' = (rpc = "ok" /\ asset_registered)
               /\ opc' = "ready"
               /\ UNCHANGED <<oexit, ocause>>
          ELSE /\ reg_checked' = FALSE
               /\ Exit(1, outcome)

\* faulty variant: a price given on the command line is pushed even with --read-only
RunMode_PriceFirst(a) ==
    IF a.price # NoPrice THEN "update"
    ELSE IF a.read_only THEN "read_only" ELSE "update"

\* main, lines 421 and 432: --read-only is looked at before any price source
RunMode(a) == IF a.read_only THEN "read_only" ELSE "update"

\* main, lines 421-430: --read-only
oracle_read_only ==
    /\ opc = "ready"
    /\ RunMode(args) = "read_only"
    /\ Exit(0, "read_only")
    /\ UNCHANGED <<calcSide, storeVars, pushVars, chainVars, audit_log, logVars, args, price,
                   reg_checked, verified, log_write, oruns, txs_before, log_before>>

\* read_price_from_csv, lines 260-311: the price of the last row, NoPrice for None
read_price_from_csv(csv) == IF csv.state = "ok" THEN csv.price ELSE NoPrice

\* main, lines 432-454: choose the price and require it to be positive
oracle_price ==
    /\ opc = "ready"
    /\ RunMode(args) = "update"
    /\ UNCHANGED <<calcSide, storeVars, pushVars, chainVars, audit_log, logVars, args,
                   reg_checked, verified, log_write, oruns, txs_before, log_before>>
    /\ LET p == IF args.price # NoPrice THEN args.price
                ELSE read_price_from_csv(args.csv)
       IN  IF p = NoPrice
           THEN /\ Exit(1, "csv_error")
                /\ UNCHANGED price
           ELSE IF p <= 0
           THEN /\ Exit(1, "bad_price")
                /\ price' = p
           ELSE /\ price' = p
                /\ opc' = "send"
                /\ UNCHANGED <<oexit, ocause>>

\* update_price up to send_raw_transaction, lines 228-243 and 185-205
oracle_send ==
    /\ opc = "send"
    /\ UNCHANGED <<calcSide, storeVars, pushVars, asset_registered, chain_price, audit_log,
                   logVars, args, price, reg_checked, verified, log_write, oruns,
                   txs_before, log_before>>
    /\ \E sent \in BOOLEAN :
          IF sent
          THEN /\ chain_txs' = Append(chain_txs,
                      [price_usd |-> price, newPrice |-> PriceScaled(price),
                       status |-> "pending"])
               /\ opc' = "confirm"
               /\ UNCHANGED <<oexit, ocause>>
          ELSE \* build, sign or send raised: caught at line 470
               /\ Exit(1, "send_failed")
               /\ UNCHANGED chain_txs

\* faulty variant: a read-back that differs raises, so the update is neither
\* logged nor reported as done
VerifyReadback_Strict(latest, price_scaled) ==
    [verified |-> latest = price_scaled, proceed |-> latest = price_scaled]

\* update_price, lines 248-255: both branches of the comparison only print
VerifyReadback(latest, price_scaled) ==
    [verified |-> latest = price_scaled, proceed |-> TRUE]

\* update_price from wait_for_transaction_receipt on, lines 206-207 and 245-258,
\* and main, lines 461-478
oracle_confirm ==
    /\ opc = "confirm"
    /\ UNCHANGED <<calcSide, storeVars, pushVars, asset_registered, logVars, args, price,
                   reg_checked, oruns, txs_before, log_before>>
    /\ LET tx_hash == Len(chain_txs)
           price_scaled == PriceScaled(price)
       IN  \E receipt \in {"timeout", "success", "reverted"}, read_ok, write_ok \in BOOLEAN :
             IF receipt = "timeout"
             THEN \* wait_for_transaction_receipt raised: caught at line 470
                  /\ Exit(1, "no_receipt")
                  /\ UNCHANGED <<chain_price, chain_txs, audit_log, verified, log_write>>
             ELSE /\ chain_txs' = [chain_txs EXCEPT ![tx_hash].status = receipt]
                  /\ chain_price' = IF receipt = "success" THEN price_scaled ELSE chain_price
                  \* get_current_price returns 0 when the call raises
                  /\ LET latest == IF read_ok THEN chain_price' ELSE FZero
                         check  == VerifyReadback(latest, price_scaled)
                     IN  /\ verified' = check.verified
                         /\ IF check.proceed
                            THEN /\ audit_log' = log_update(audit_log, price, tx_hash,
                                                            tx_hash, write_ok)
                                 /\ log_write' = IF write_ok THEN "ok" ELSE "failed"
                                 /\ Exit(0, "updated")
                            ELSE /\ UNCHANGED <<audit_log, log_write>>
                                 /\ Exit(1, "mismatch")

\* _log_update called once more, as update_price does at line 257
MaxLogCalls == 102
MaxWriteFailures == 1

log_update_call ==
    /\ log_calls < MaxLogCalls
    /\ log_calls' = log_calls + 1
    /\ UNCHANGED <<calcSide, storeVars, pushVars, chainVars, oracleVars>>
    /\ \E price_usd \in LogPrices, write_ok \in BOOLEAN :
          /\ write_ok \/ log_calls - Len(logged) < MaxWriteFailures
          /\ audit_log' = log_update(audit_log, price_usd, log_calls', log_calls', write_ok)
          /\ logged' = IF write_ok
                       THEN Append(logged, [index_price_usd    |-> price_usd,
                                            index_price_scaled |-> PriceScaled(price_usd),
                                            tx_hash            |-> log_calls',
                                            block_number       |-> log_calls'])
                       ELSE logged

(***************************************************************************)
(* calculate_t4_index.py: Observation Loader, Provider Normalizer and      *)
(* Weighted Index Calculator.  A Python str is the sequence of its         *)
(* characters, a dict the sequence of its items [k, v] in insertion order, *)
(* a float a binary64 value as above.                                      *)
(***************************************************************************)
UpperCase == <<"A", "B", "C", "D", "E", "F", "G", "H", "I", "J", "K", "L", "M",
               "N", "O", "P", "Q", "R", "S", "T", "U", "V", "W", "X", "Y", "Z">>
LowerCase == <<"a", "b", "c", "d", "e", "f", "g", "h", "i", "j", "k", "l", "m",
               "n", "o", "p", "q", "r", "s", "t", "u", "v", "w", "x", "y", "z">>
Digits    == <<"0", "1", "2", "3", "4", "5", "6", "7", "8", "9">>

\* str.lower()
lower(s) ==
    [i \in 1..Len(s) |->
        IF \E j \in 1..26 : UpperCase[j] = s[i]
        THEN LowerCase[CHOOSE j \in 1..26 : UpperCase[j] = s[i]]
        ELSE s[i]]

\* sub in s
Contains(sub, s) ==
    \E i \in 0..(Len(s) - Len(sub)) :
        \A j \in 1..Len(sub) : s[i + j] = sub[j]

\* s == t for two strings
StrEq(s, t) == Len(s) = Len(t) /\ \A i \in 1..Len(s) : s[i] = t[i]

\* key in d, d.get(key), d[key] = value
DictHas(d, key) == \E i \in 1..Len(d) : StrEq(d[i].k, key)

DictGet(d, key) == d[CHOOSE i \in 1..Len(d) : StrEq(d[i].k, key)].v

\* faulty variant: a key that is already set keeps its value
DictSet_KeepFirst(d, key, value) ==
    IF DictHas(d, key) THEN d ELSE Append(d, [k |-> key, v |-> value])

DictSet(d, key, value) ==
    IF DictHas(d, key)
    THEN [i \in 1..Len(d) |-> IF StrEq(d[i].k, key) THEN [k |-> d[i].k, v |-> value]
                              ELSE d[i]]
    ELSE Append(d, [k |-> key, v |-> value])

\* provider names
AWS           == <<"A", "W", "S">>
Azure         == <<"A", "z", "u", "r", "e">>
GCP           == <<"G", "C", "P">>
AlibabaCloud  == <<"A", "l", "i", "b", "a", "b", "a", " ", "C", "l", "o", "u", "d">>
TencentCloud  == <<"T", "e", "n", "c", "e", "n", "t", " ", "C", "l", "o", "u", "d">>
VastAi        == <<"V", "a", "s", "t", ".", "a", "i">>
Paperspace    == <<"P", "a", "p", "e", "r", "s", "p", "a", "c", "e">>
Replicate     == <<"R", "e", "p", "l", "i", "c", "a", "t", "e">>
ThunderCompute == <<"T", "h", "u", "n", "d", "e", "r", " ", "C", "o", "m", "p", "u", "t", "e">>
Cerebrium     == <<"C", "e", "r", "e", "b", "r", "i", "u", "m">>
NeevCloud     == <<"N", "e", "e", "v", "C", "l", "o", "u", "d">>
default       == <<"d", "e", "f", "a", "u", "l", "t">>
GoogleCloud   == <<"G", "o", "o", "g", "l", "e", " ", "C", "l", "o", "u", "d">>
Google        == <<"G", "o", "o", "g", "l", "e">>
AmazonWebServices == <<"A", "m", "a", "z", "o", "n", " ", "W", "e", "b", " ",
                       "S", "e", "r", "v", "i", "c", "e", "s">>
Alibaba       == <<"A", "l", "i", "b", "a", "b", "a">>
Tencent       == <<"T", "e", "n", "c", "e", "n", "t">>
Thunder       == <<"T", "h", "u", "n", "d", "e", "r">>
GetDeploying  == <<"G", "e", "t", "D", "e", "p", "l", "o", "y", "i", "n", "g">>
Average       == <<"A", "v", "e", "r", "a", "g", "e">>

\* __init__, lines 35-81; the float literals are written in hundredths
hyperscalers == <<AWS, Azure, GCP>>

hyperscaler_discounts ==
    <<[k |-> AWS, v |-> FloatOfCents(44)], [k |-> Azure, v |-> FloatOfCents(65)],
      [k |-> GCP, v |-> FloatOfCents(65)]>>

discounted_weight == FloatOfCents(80)
full_price_weight == FloatOfCents(20)
hyperscaler_total_weight == FloatOfCents(65)
neocloud_total_weight == FloatOfCents(35)

hyperscaler_weights ==
    <<[k |-> AWS, v |-> FloatOfCents(45)], [k |-> Azure, v |-> FloatOfCents(30)],
      [k |-> GCP, v |-> FloatOfCents(25)]>>

neocloud_weights ==
    <<[k |-> AlibabaCloud, v |-> FloatOfCents(15)],
      [k |-> TencentCloud, v |-> FloatOfCents(15)],
      [k |-> VastAi, v |-> FloatOfCents(15)],
      [k |-> Paperspace, v |-> FloatOfCents(15)],
      [k |-> Replicate, v |-> FloatOfCents(10)],
      [k |-> ThunderCompute, v |-> FloatOfCents(10)],
      [k |-> Cerebrium, v |-> FloatOfCents(10)],
      [k |-> NeevCloud, v |-> FloatOfCents(10)],
      [k |-> default, v |-> FloatOfCents(5)]>>

provider_aliases ==
    <<[k |-> GoogleCloud, v |-> GCP], [k |-> Google, v |-> GCP],
      [k |-> AmazonWebServices, v |-> AWS], [k |-> Alibaba, v |-> AlibabaCloud],
      [k |-> Tencent, v |-> TencentCloud], [k |-> Thunder, v |-> ThunderCompute]>>

\* the literals 1.0, 1 and 0.30 (discount of a hyperscaler without an entry) and
\* 0.10 (weight of a key neocloud_weights does not hold)
FOne == FloatOfCents(100)
DefaultDiscount == FloatOfCents(30)
DefaultRawWeight == FloatOfCents(10)

\* normalize_provider_name, lines 83-91: the first alias (in dict order) that equals
\* the name or occurs in it, both lower-cased
AliasMatches(i, name) ==
    \/ StrEq(lower(name), lower(provider_aliases[i].k))
    \/ Contains(lower(provider_aliases[i].k), lower(name))

\* faulty variant: the last matching alias of the table wins
normalize_provider_name_LastMatch(name) ==
    IF \E i \in 1..Len(provider_aliases) : AliasMatches(i, name)
    THEN provider_aliases[CHOOSE i \in 1..Len(provider_aliases) :
                             /\ AliasMatches(i, name)
                             /\ \A j \in (i + 1)..Len(provider_aliases) :
                                    ~AliasMatches(j, name)].v
    ELSE name

normalize_provider_name(name) ==
    IF \E i \in 1..Len(provider_aliases) : AliasMatches(i, name)
    THEN provider_aliases[CHOOSE i \in 1..Len(provider_aliases) :
                             /\ AliasMatches(i, name)
                             /\ \A j \in 1..(i - 1) : ~AliasMatches(j, name)].v
    ELSE name

\* float("n/d") for a decimal with numerator n and power of ten d: the nearest double
FloatOfDecimal(n, d) ==
    IF n = 0 THEN FZero
    ELSE LET t == CHOOSE u \in -20..17 :
                     \/ u >= 0 /\ d * 2^u <= n /\ n < 2 * d * 2^u
                     \/ u < 0 /\ d <= n * 2^(-u) /\ n * 2^(-u) < 2 * d
             k  == 52 - t
             dr == BigDivRem(BigShift(<<n % Base, n \div Base>>, k, 6), d, 6, 0)
             q  == SubSeq(dr.q, 1, 4)
             up == 2 * dr.r > d \/ (2 * dr.r = d /\ q[1] % 2 = 1)
         IN  IF up THEN FRoundUp(q, -k) ELSE [m |-> q, e |-> -k]

IsDigit(c) == \E j \in 1..10 : Digits[j] = c

IsNumChar(c) == c = "." \/ IsDigit(c)

\* re.search(r'([0-9.]+)', s).group(1): the leftmost longest run of digits and
\* dots, <<>> when there is no match
NumToken(s) ==
    IF \A i \in 1..Len(s) : ~IsNumChar(s[i]) THEN <<>>
    ELSE LET a == CHOOSE i \in 1..Len(s) :
                     IsNumChar(s[i]) /\ \A j \in 1..(i - 1) : ~IsNumChar(s[j])
             b == CHOOSE i \in a..Len(s) :
                     /\ \A j \in a..i : IsNumChar(s[j])
                     /\ i = Len(s) \/ ~IsNumChar(s[i + 1])
         IN  SubSeq(s, a, b)

\* the integer written by the digits of tok (its dot left out)
RECURSIVE DigitsValue(_, _)
DigitsValue(tok, i) ==
    IF i = 0 THEN 0
    ELSE IF tok[i] = "." THEN DigitsValue(tok, i - 1)
    ELSE 10 * DigitsValue(tok, i - 1) + (CHOOSE j \in 1..10 : Digits[j] = tok[i]) - 1

\* float(tok) for a run of digits and dots: ValueError unless it has a digit and at
\* most one dot
FloatOfToken(tok) ==
    LET dots == {i \in 1..Len(tok) : tok[i] = "."}
    IN  IF Cardinality(dots) > 1 \/ Cardinality(dots) = Len(tok)
        THEN [raises |-> TRUE, value |-> FZero]
        ELSE LET frac == IF dots = {} THEN 0 ELSE Len(tok) - (CHOOSE i \in dots : TRUE)
             IN  [raises |-> FALSE,
                  value  |-> FloatOfDecimal(DigitsValue(tok, Len(tok)), 10^frac)]

\* _parse_price, lines 154-159
parse_price(price_str) ==
    LET tok == NumToken(price_str)
    IN  IF tok = <<>> THEN [raises |-> FALSE, value |-> FZero]
        ELSE FloatOfToken(tok)

\* load_prices, lines 105-110: the entries of "prices" from the i-th on; a ValueError
\* of float() leaves the loop (caught at line 111) with the entries set so far
RECURSIVE LoadCombined(_, _, _)
LoadCombined(entries, i, acc) ==
    IF i > Len(entries) THEN acc
    ELSE LET p == parse_price(entries[i].price_val)
         IN  IF p.raises THEN acc
             ELSE IF FLt(FZero, p.value)
             THEN LoadCombined(entries, i + 1,
                      DictSet(acc, normalize_provider_name(entries[i].provider), p.value))
             ELSE LoadCombined(entries, i + 1, acc)

\* s.replace(old, ""), from position i on
RECURSIVE Remove(_, _, _)
Remove(s, old, i) ==
    IF i > Len(s) THEN <<>>
    ELSE IF i + Len(old) - 1 <= Len(s) /\ SubSeq(s, i, i + Len(old) - 1) = old
    THEN Remove(s, old, i + Len(old))
    ELSE <<s[i]>> \o Remove(s, old, i + 1)

IsLetter(c) == \E j \in 1..26 : UpperCase[j] = c \/ LowerCase[j] = c

\* s.replace("_", " ").title(): a letter after a non-letter is upper-cased, every
\* other letter lower-cased
Title(s) ==
    [i \in 1..Len(s) |->
        IF s[i] = "_" THEN " "
        ELSE IF ~IsLetter(s[i]) THEN s[i]
        ELSE IF i = 1 \/ ~IsLetter(s[i - 1])
        THEN (IF \E j \in 1..26 : LowerCase[j] = s[i]
              THEN UpperCase[CHOOSE j \in 1..26 : LowerCase[j] = s[i]] ELSE s[i])
        ELSE lower(<<s[i]>>)[1]]

T4PricesSuffix == <<"_", "t", "4", "_", "p", "r", "i", "c", "e", "s">>
combined      == <<"c", "o", "m", "b", "i", "n", "e", "d">>
getdeploying  == <<"g", "e", "t", "d", "e", "p", "l", "o", "y", "i", "n", "g">>

\* lines 136-143: the price of one file, the first positive one of its "prices"
RECURSIVE FilePrice(_, _)
FilePrice(ps, i) ==
    IF i > Len(ps) THEN [raises |-> FALSE, value |-> FZero]
    ELSE LET p == parse_price(ps[i])
         IN  IF p.raises \/ FLt(FZero, p.value) THEN p ELSE FilePrice(ps, i + 1)

\* load_from_individual_files, lines 120-152, from the i-th file on; f.stem is the
\* file name without ".json"
RECURSIVE LoadFiles(_, _, _)
LoadFiles(files, i, acc) ==
    IF i > Len(files) THEN acc
    ELSE LET f == files[i]
             provider == normalize_provider_name(
                             IF f.has_provider THEN f.provider
                             ELSE Title(Remove(f.stem, T4PricesSuffix, 1)))
             p == FilePrice(f.prices, 1)
         IN  IF Contains(combined, f.stem) \/ Contains(getdeploying, f.stem)
             THEN LoadFiles(files, i + 1, acc)
             ELSE IF ~f.readable \/ p.raises THEN LoadFiles(files, i + 1, acc)
             ELSE IF FLt(FZero, p.value)
             THEN LoadFiles(files, i + 1, DictSet(acc, provider, p.value))
             ELSE LoadFiles(files, i + 1, acc)

load_from_individual_files(files) == LoadFiles(files, 1, <<>>)

\* faulty variant: the single files are read as well and fill in missing providers
load_prices_Merged(file, files) ==
    LET loaded == IF file.state = "ok" THEN LoadCombined(file.prices, 1, <<>>) ELSE <<>>
    IN  LoadFiles(files, 1, loaded)

\* load_prices, lines 93-118
load_prices(file, files) ==
    LET loaded == IF file.state = "ok" THEN LoadCombined(file.prices, 1, <<>>) ELSE <<>>
    IN  IF loaded = <<>> THEN load_from_individual_files(files) ELSE loaded

\* calculate_index, lines 186-195: prices.get(norm_hs), else the first key that
\* holds the name (lower-cased); found is FALSE for None
FindPrice(ps, hs) ==
    LET norm_hs == normalize_provider_name(hs)
        loose   == {i \in 1..Len(ps) : Contains(lower(norm_hs), lower(ps[i].k))}
    IN  IF DictHas(ps, norm_hs) /\ ~IsFZero(DictGet(ps, norm_hs))
        THEN [found |-> TRUE, value |-> DictGet(ps, norm_hs)]
        ELSE IF loose # {}
        THEN [found |-> TRUE, value |-> ps[CHOOSE i \in loose : \A j \in loose : i <= j].v]
        ELSE [found |-> FALSE, value |-> FZero]

\* self.hyperscaler_discounts.get(hs, 0.30) and self.hyperscaler_weights.get(hs, 0.0)
Discount(hs) ==
    IF DictHas(hyperscaler_discounts, hs) THEN DictGet(hyperscaler_discounts, hs)
    ELSE DefaultDiscount

Weight(hs) ==
    IF DictHas(hyperscaler_weights, hs) THEN DictGet(hyperscaler_weights, hs) ELSE FZero

\* line 199: price * (1 - discount)
DiscPrice(original, discount) == FMul(original, FSub(FOne, discount))

\* faulty variant: the blend weights of the discounted and the full price are swapped
EffectivePrice_Swapped(original, disc_price) ==
    FAdd(FMul(disc_price, full_price_weight), FMul(original, discounted_weight))

\* line 200: (disc_price * self.discounted_weight) + (price * self.full_price_weight)
EffectivePrice(original, disc_price) ==
    FAdd(FMul(disc_price, discounted_weight), FMul(original, full_price_weight))

\* line 203: effective_price * weight * self.hyperscaler_total_weight
Contribution(effective_price, weight) ==
    FMul(FMul(effective_price, weight), hyperscaler_total_weight)

\* lines 208-214: the entry of hyperscaler_data
HsRecord(original, disc_price, effective_price, weight) ==
    [original |-> original, discounted |-> disc_price, effective |-> effective_price,
     weight |-> weight, contribution |-> Contribution(effective_price, weight)]

Blended(original, disc_price, weight) ==
    HsRecord(original, disc_price, EffectivePrice(original, disc_price), weight)

\* lines 198-214: the entry for hs observed at the price original
HyperscalerEntry(hs, original) ==
    Blended(original, DiscPrice(original, Discount(hs)), Weight(hs))

\* lines 205-214: the sums and hyperscaler_data after the entry en of hs
HsAdd(acc, hs, en) ==
    [sum  |-> FAdd(acc.sum, en.contribution),
     used |-> FAdd(acc.used, en.weight),
     data |-> DictSet(acc.data, hs, en)]

\* line 197: if price
HsStep(acc, hs, f) ==
    IF f.found /\ ~IsFZero(f.value) THEN HsAdd(acc, hs, HyperscalerEntry(hs, f.value))
    ELSE acc

\* lines 182-218: the loop over self.hyperscalers from the i-th on
RECURSIVE HsLoop(_, _, _)
HsLoop(ps, i, acc) ==
    IF i > Len(hyperscalers) THEN acc
    ELSE HsLoop(ps, i + 1, HsStep(acc, hyperscalers[i], FindPrice(ps, hyperscalers[i])))

\* faulty variant: the comparison is turned around
ScalingApplies_Above(used) == FLt(FOne, used)

\* line 221
ScalingApplies(used) == FLt(FZero, used) /\ FLt(used, FOne)

\* faulty variant: the sum is multiplied by the weight used
Renormalize_Multiply(sum, used) ==
    IF ScalingApplies(used) THEN FMul(sum, used) ELSE sum

\* lines 221-223
Renormalize(sum, used) ==
    IF ScalingApplies(used) THEN FMul(sum, FDiv(FOne, used)) ELSE sum

\* faulty variant: the aggregator's entry is not excluded
IsNeocloud_KeepsAggregator(p) ==
    /\ \A i \in 1..Len(hyperscalers) : ~StrEq(normalize_provider_name(hyperscalers[i]), p)
    /\ ~Contains(Average, p)

\* lines 235-242: is p kept as a neocloud
IsNeocloud(p) ==
    /\ \A i \in 1..Len(hyperscalers) : ~StrEq(normalize_provider_name(hyperscalers[i]), p)
    /\ ~Contains(GetDeploying, p)
    /\ ~Contains(Average, p)

\* lines 249-255: the weight of p, that of the first key of neocloud_weights its name
\* holds, else of "default"
RawWeight(p) ==
    LET hits  == {i \in 1..Len(neocloud_weights) :
                     Contains(lower(neocloud_weights[i].k), lower(p))}
        w_key == IF hits = {} THEN default
                 ELSE neocloud_weights[CHOOSE i \in hits : \A j \in hits : i <= j].k
    IN  IF DictHas(neocloud_weights, w_key) THEN DictGet(neocloud_weights, w_key)
        ELSE DefaultRawWeight

\* lines 233-261: neocloud_data
NeocloudData(ps) ==
    LET nc_providers == SelectSeq(ps, LAMBDA it : IsNeocloud(it.k))
    IN  [i \in 1..Len(nc_providers) |->
            [k |-> nc_providers[i].k,
             v |-> [price |-> nc_providers[i].v, raw_weight |-> RawWeight(nc_providers[i].k)]]]

\* nc_weight_used += raw_weight over the first n providers
RECURSIVE WeightUsed(_, _)
WeightUsed(data, n) ==
    IF n = 0 THEN FZero ELSE FAdd(WeightUsed(data, n - 1), data[n].v.raw_weight)

\* faulty variant: the weight is divided by the total of the registry's named weights
NormWeight_Registry(raw_weight, used) == FDiv(raw_weight, FOne)

\* line 266
NormWeight(raw_weight, used) == FDiv(raw_weight, used)

\* lines 264-268: nc_weighted_sum += contribution over the first n providers
RECURSIVE NcSum(_, _, _)
NcSum(data, used, n) ==
    IF n = 0 THEN FZero
    ELSE FAdd(NcSum(data, used, n - 1),
              FMul(FMul(data[n].v.price, NormWeight(data[n].v.raw_weight, used)),
                   neocloud_total_weight))

\* faulty variant: the price is cut to 2 decimals rather than rounded
ReportPrice_Truncated(hs_sum, nc_sum) ==
    RoundDec(FAdd(hs_sum, nc_sum), 10000) \div 100

\* line 285: round(final_index, 2), in cents
ReportPrice(hs_sum, nc_sum) == RoundDec(FAdd(hs_sum, nc_sum), 100)

\* lines 283-294: the report (the timestamp left out); final_index_price is held in
\* cents and the components in 1/10000
Report(hs_sum, nc_sum, hs_data, nc_data) ==
    [final_index_price |-> ReportPrice(hs_sum, nc_sum),
     components |-> [hyperscaler |-> RoundDec(hs_sum, 10000),
                     neocloud    |-> RoundDec(nc_sum, 10000)],
     details |-> [hyperscalers |-> hs_data, neoclouds |-> nc_data]]

\* price strings the files of the model hold
S_1_00    == <<"1", ".", "0", "0">>
S_1_50    == <<"1", ".", "5", "0">>
S_1_20    == <<"1", ".", "2", "0">>
S_0_12    == <<"0", ".", "1", "2">>
S_0_30    == <<"0", ".", "3", "0">>
S_0_40    == <<"0", ".", "4", "0">>
S_0_55_hr == <<"$", "0", ".", "5", "5", "/", "h", "r">>
S_0       == <<"0">>
S_0_00_hr == <<"$", "0", ".", "0", "0", "/", "h", "r">>
S_0_01_hr == <<"$", "0", ".", "0", "1", "/", "h", "r">>
S_m0_50   == <<"-", "0", ".", "5", "0">>
S_NA      == <<"N", "/", "A">>
S_dot     == <<".">>

\* a provider neocloud_weights has no key for
RunPod == <<"R", "u", "n", "P", "o", "d">>

\* the providers t4_combined_prices.json may name, in the order of its "prices"
\* object, each with the price strings it may carry
CombinedSlots ==
    <<[provider |-> AWS,          vals |-> {S_1_00, S_m0_50, S_0}],
      [provider |-> Azure,        vals |-> {S_1_50, S_dot}],
      [provider |-> GCP,          vals |-> {S_1_20}],
      [provider |-> VastAi,       vals |-> {S_0_12, S_0_00_hr}],
      [provider |-> AlibabaCloud, vals |-> {S_0_55_hr}],
      [provider |-> RunPod,       vals |-> {S_0_30, S_NA}],
      [provider |-> GetDeploying, vals |-> {S_0_40}]>>

\* every "prices" object over the slots from the i-th on
RECURSIVE CombinedPrices(_)
CombinedPrices(i) ==
    IF i > Len(CombinedSlots) THEN {<<>>}
    ELSE LET rest == CombinedPrices(i + 1)
         IN  rest \cup {<<[provider |-> CombinedSlots[i].provider, price_val |-> v]>> \o r :
                           v \in CombinedSlots[i].vals, r \in rest}

NoCombinedFile == [state |-> "missing", prices |-> <<>>]

PriceFile(stem, has_provider, provider, ps, readable) ==
    [stem |-> stem, has_provider |-> has_provider, provider |-> provider,
     prices |-> ps, readable |-> readable]

aws_t4_prices == <<"a", "w", "s">> \o T4PricesSuffix
vastai_t4_prices == <<"v", "a", "s", "t", "a", "i">> \o T4PricesSuffix
gcp_t4_prices == <<"g", "c", "p">> \o T4PricesSuffix
azure_t4_prices == <<"a", "z", "u", "r", "e">> \o T4PricesSuffix
paperspace_t4_prices == <<"p", "a", "p", "e", "r", "s", "p", "a", "c", "e">> \o T4PricesSuffix
getdeploying_t4_prices == getdeploying \o T4PricesSuffix

\* the *_t4_prices.json files the directory may hold, in glob order
FileSlots ==
    <<PriceFile(aws_t4_prices, TRUE, AWS, <<S_0_00_hr, S_1_00>>, TRUE),
      PriceFile(azure_t4_prices, TRUE, Azure, <<S_m0_50>>, TRUE),
      PriceFile(gcp_t4_prices, FALSE, <<>>, <<S_1_20>>, TRUE),
      PriceFile(paperspace_t4_prices, TRUE, Paperspace, <<S_0_55_hr>>, FALSE),
      PriceFile(vastai_t4_prices, TRUE, VastAi, <<S_NA, S_0, S_0_12>>, TRUE),
      PriceFile(getdeploying_t4_prices, TRUE, GetDeploying, <<S_0_40>>, TRUE)>>

RECURSIVE FileLists(_)
FileLists(i) ==
    IF i > Len(FileSlots) THEN {<<>>}
    ELSE LET rest == FileLists(i + 1)
         IN  rest \cup {<<FileSlots[i]>> \o r : r \in rest}

\* raw provider names that need the alias table or a name-based exclusion
MarketAverage == <<"M", "a", "r", "k", "e", "t", " ", "A", "v", "e", "r", "a", "g", "e">>
GOOGLE_cloud == <<"G", "O", "O", "G", "L", "E", " ", "c", "l", "o", "u", "d">>
AlibabaGoogle == <<"A", "l", "i", "b", "a", "b", "a", "/", "G", "o", "o", "g", "l", "e">>
amazon_web_services == lower(AmazonWebServices)

\* "prices" objects in which several raw names meet one canonical key, an alias
\* matches inside a longer name, or an average entry is listed
ScenarioPrices ==
    {<<[provider |-> GCP, price_val |-> S_1_20],
       [provider |-> GoogleCloud, price_val |-> S_1_50],
       [provider |-> VastAi, price_val |-> S_0_12]>>,
     <<[provider |-> GoogleCloud, price_val |-> S_1_50],
       [provider |-> GCP, price_val |-> S_1_20]>>,
     <<[provider |-> MarketAverage, price_val |-> S_0_40],
       [provider |-> AWS, price_val |-> S_1_00],
       [provider |-> GOOGLE_cloud, price_val |-> S_1_20]>>,
     <<[provider |-> AlibabaGoogle, price_val |-> S_0_30],
       [provider |-> amazon_web_services, price_val |-> S_1_00],
       [provider |-> RunPod, price_val |-> S_0_30]>>}

amazon_t4_prices == <<"a", "m", "a", "z", "o", "n">> \o T4PricesSuffix
combined_t4_prices == combined \o T4PricesSuffix

AmazonFile == PriceFile(amazon_t4_prices, TRUE, AmazonWebServices, <<S_1_50>>, TRUE)
CombinedTaggedFile == PriceFile(combined_t4_prices, TRUE, Paperspace, <<S_0_55_hr>>, TRUE)

\* directories in which two files name one provider, or a file is tagged combined
ScenarioFiles ==
    {<<FileSlots[1], AmazonFile>>,
     <<AmazonFile, FileSlots[1]>>,
     <<CombinedTaggedFile, FileSlots[5]>>,
     <<CombinedTaggedFile>>}

\* a report an earlier run wrote
OldReport ==
    [final_index_price |-> 50,
     components |-> [hyperscaler |-> 4500, neocloud |-> 500],
     details |-> [hyperscalers |-> <<>>, neoclouds |-> <<>>]]

\* calculate_index, lines 161-167: load the prices, return when there are none
calc_load ==
    /\ cpc = "idle"
    /\ prices' = load_prices(combined_file, price_files)
    /\ report_before' = report_file
    /\ cpc' = IF prices' = <<>> THEN "done" ELSE "hyperscalers"
    /\ UNCHANGED <<storeVars, pushVars, oracleSide, fileVars, hyperscaler_data,
                   hs_weighted_sum, hs_weight_used, neocloud_data, nc_weighted_sum,
                   nc_weight_used, final_index>>

\* lines 174-224
calc_hyperscalers ==
    /\ cpc = "hyperscalers"
    /\ \E acc \in {HsLoop(prices, 1, [sum |-> FZero, used |-> FZero, data |-> <<>>])} :
          /\ hyperscaler_data' = acc.data
          /\ hs_weight_used' = acc.used
          /\ hs_weighted_sum' = Renormalize(acc.sum, acc.used)
    /\ cpc' = "neoclouds"
    /\ UNCHANGED <<storeVars, pushVars, oracleSide, fileVars, prices, neocloud_data,
                   nc_weighted_sum, nc_weight_used, final_index, report_before>>

\* lines 226-273
calc_neoclouds ==
    /\ cpc = "neoclouds"
    /\ neocloud_data' = NeocloudData(prices)
    /\ nc_weight_used' = WeightUsed(neocloud_data', Len(neocloud_data'))
    /\ nc_weighted_sum' = IF FLt(FZero, nc_weight_used')
                          THEN NcSum(neocloud_data', nc_weight_used', Len(neocloud_data'))
                          ELSE FZero
    /\ cpc' = "report"
    /\ UNCHANGED <<storeVars, pushVars, oracleSide, fileVars, prices, hyperscaler_data,
                   hs_weighted_sum, hs_weight_used, final_index, report_before>>

\* lines 275-298
calc_report ==
    /\ cpc = "report"
    /\ final_index' = FAdd(hs_weighted_sum, nc_weighted_sum)
    /\ report_file' = <<Report(hs_weighted_sum, nc_weighted_sum, hyperscaler_data,
                               neocloud_data)>>
    /\ cpc' = "done"
    /\ UNCHANGED <<storeVars, pushVars, oracleSide, combined_file, price_files, prices,
                   hyperscaler_data, hs_weighted_sum, hs_weight_used, neocloud_data,
                   nc_weighted_sum, nc_weight_used, report_before>>

(***************************************************************************)
(* Publish Gate, push_to_supabase lines 79-96.                             *)
(***************************************************************************)
\* faulty variant: the oldest row is returned
LatestIndexRow_Oldest(table) == IF table = <<>> THEN <<>> ELSE <<table[1]>>

\* .order('created_at', desc=True).limit(1): the most recent row, if any
LatestIndexRow(table) == IF table = <<>> THEN <<>> ELSE <<table[Len(table)]>>

\* lower_bound <= new_price <= upper_bound, in Python floats
WithinTolerance(prev, new) ==
    LET prev_price  == FloatOfCents(prev)
        new_price   == FloatOfCents(new)
        lower_bound == FMul(prev_price, FloatOfCents(80))
        upper_bound == FMul(prev_price, FloatOfCents(120))
    IN  FLe(lower_bound, new_price) /\ FLe(new_price, upper_bound)

\* faulty variant: a gate that also demands the tolerance of a first push
PublishGate_NoBootstrap(data, new) ==
    data # <<>> /\ Len(data) > 0 /\ WithinTolerance(data[1].index_price, new)

\* data: the rows the select returned; TRUE when the push may proceed
PublishGate(data, new) ==
    IF data # <<>> /\ Len(data) > 0
    THEN WithinTolerance(data[1].index_price, new)
    ELSE TRUE

(***************************************************************************)
(* push_t4_to_supabase.py                                                  *)
(***************************************************************************)
\* breakdowns a report's details may hold: AWS observed at 1.00, Vast.ai at 0.12
HsDetails == {<<>>, <<[k |-> AWS, v |-> HyperscalerEntry(AWS, FOne)]>>}
NcDetails ==
    {<<>>, <<[k |-> VastAi,
              v |-> [price |-> FloatOfCents(12), raw_weight |-> RawWeight(VastAi)]]>>}

NoData ==
    [price |-> NoPrice, details |-> [hyperscalers |-> <<>>, neoclouds |-> <<>>],
     loaded |-> FALSE]

\* what load_index_data may return for a report found on disk
IndexData ==
    {[price |-> p, details |-> [hyperscalers |-> h, neoclouds |-> n], loaded |-> TRUE] :
        p \in Prices \cup {NoPrice}, h \in HsDetails, n \in NcDetails}

\* the run ends: push_to_supabase returned r (or was never called), main returns
EndRun(c, r) ==
    /\ pc' = "done"
    /\ cause' = c
    /\ result' = r
    /\ exit_code' = 0
    /\ outcomes' = outcomes \cup {<<c, r, 0>>}

\* main, lines 169-176: the run starts with what load_index_data returned
MainLoad(d) ==
    /\ UNCHANGED <<oracleSide, calcSide>>
    /\ pc \in {"idle", "done"}
    /\ runs < MaxRuns
    /\ runs' = runs + 1
    /\ index_before' = t4_index_prices
    /\ provider_before' = t4_provider_prices
    /\ decision' = "none"
    /\ index_id' = 0
    /\ UNCHANGED storeVars
    /\ index_data' = d
    /\ IF d.loaded
       THEN /\ pc' = "connect"
            /\ cause' = "running"
            /\ result' = "none"
            /\ exit_code' = -1
            /\ UNCHANGED outcomes
       ELSE EndRun("no_data", "none")

\* main with load_index_data, lines 31-45, reading a report some earlier calculator
\* run left on disk
main_load == \E d \in IndexData \cup {NoData} : MainLoad(d)

\* load_index_data, lines 31-45, on t4_weighted_index.json as the model's calculator
\* wrote it (absent: None)
load_index_data(file) ==
    IF file = <<>> THEN NoData
    ELSE [price |-> file[1].final_index_price, details |-> file[1].details,
          loaded |-> TRUE]

\* main reading the report of the working directory, between calculator runs
main_load_report ==
    /\ cpc \in {"idle", "done"}
    /\ MainLoad(load_index_data(report_file))

\* push_to_supabase, lines 51-67: credentials, library, client
push_connect ==
    /\ UNCHANGED <<oracleSide, calcSide>>
    /\ pc = "connect"
    /\ UNCHANGED <<storeVars, index_data, decision, index_id, runs,
                   index_before, provider_before>>
    /\ \E env \in {"ok", "credentials", "library", "connect_error"} :
          IF env = "ok"
          THEN /\ pc' = "validate"
               /\ UNCHANGED <<cause, result, exit_code, outcomes>>
          ELSE EndRun(env, "false")

\* faulty variant: the rejection is only reported and the push goes on
GateStep_WarnOnly(ok) ==
    /\ decision' = IF ok THEN "accepted" ELSE "rejected"
    /\ pc' = "insert_index"
    /\ UNCHANGED <<cause, result, exit_code, outcomes>>

\* lines 88-96: a rejected price aborts the push (return False), an accepted one
\* proceeds to the inserts
GateStep(ok) ==
    IF ok
    THEN /\ decision' = "accepted"
         /\ pc' = "insert_index"
         /\ UNCHANGED <<cause, result, exit_code, outcomes>>
    ELSE /\ decision' = "rejected"
         /\ EndRun("rejected", "false")

\* push_to_supabase, lines 69-96: query the previous price, apply the gate
push_validate ==
    /\ UNCHANGED <<oracleSide, calcSide>>
    /\ pc = "validate"
    /\ UNCHANGED <<storeVars, index_data, index_id, runs, index_before, provider_before>>
    /\ \E select_ok \in BOOLEAN :
          LET data == LatestIndexRow(t4_index_prices) IN
          IF ~select_ok
          THEN /\ decision' = "none"
               /\ EndRun("connect_error", "false")
          ELSE IF data # <<>> /\ index_data.price = NoPrice
          THEN \* line 85 formats None: TypeError, caught at line 163
               /\ decision' = "none"
               /\ EndRun("exception", "false")
          ELSE GateStep(PublishGate(data, index_data.price))

\* push_to_supabase, lines 98-119: insert the index record
push_insert_index ==
    /\ UNCHANGED <<oracleSide, calcSide>>
    /\ pc = "insert_index"
    /\ UNCHANGED <<t4_provider_prices, index_data, decision, runs,
                   index_before, provider_before>>
    /\ IF index_data.price = NoPrice
       THEN \* line 110 formats None: TypeError, caught at line 163
            /\ EndRun("exception", "false")
            /\ UNCHANGED <<t4_index_prices, index_id>>
       ELSE \E insert \in {"ok", "no_data", "raise"} :
              IF insert = "ok"
              THEN LET id == Len(t4_index_prices) + 1 IN
                   /\ t4_index_prices' = Append(t4_index_prices,
                          [id |-> id, index_price |-> index_data.price])
                   /\ index_id' = id
                   /\ pc' = "insert_providers"
                   /\ UNCHANGED <<cause, result, exit_code, outcomes>>
              ELSE /\ EndRun(IF insert = "raise" THEN "connect_error" ELSE "insert_failed",
                             "false")
                   /\ UNCHANGED <<t4_index_prices, index_id>>

\* lines 126-138: the record of one entry of details.hyperscalers
HsRow(id, name, data) ==
    [index_id |-> id, provider_name |-> name, provider_type |-> "hyperscaler",
     original_price |-> data.original,
     effective_price |-> data.effective,
     discount_rate |-> IF IsFZero(data.original) THEN FZero
                       ELSE FDiv(FSub(data.original, data.discounted), data.original),
     relative_weight |-> data.weight,
     absolute_weight |-> FMul(data.weight, FloatOfCents(65)),
     weighted_contribution |-> data.contribution]

\* lines 141-154: the record of one entry of details.neoclouds
NcRow(id, name, data) ==
    [index_id |-> id, provider_name |-> name, provider_type |-> "neocloud",
     original_price |-> data.price,
     effective_price |-> data.price,
     discount_rate |-> FZero,
     relative_weight |-> data.raw_weight,
     absolute_weight |-> FMul(data.raw_weight, FloatOfCents(35)),
     weighted_contribution |-> FZero]

RowsOf(details, id) ==
    {HsRow(id, details.hyperscalers[i].k, details.hyperscalers[i].v) :
        i \in 1..Len(details.hyperscalers)}
    \cup {NcRow(id, details.neoclouds[i].k, details.neoclouds[i].v) :
             i \in 1..Len(details.neoclouds)}

\* faulty variant: the records do not carry the id of the index record
ProviderRecords_Unkeyed(d, id) == RowsOf(d.details, 0)

\* lines 122-154: one record per entry of details.hyperscalers and details.neoclouds
ProviderRecords(d, id) == RowsOf(d.details, id)

\* push_to_supabase, lines 121-167: insert the provider records, return
push_insert_providers ==
    /\ UNCHANGED <<oracleSide, calcSide>>
    /\ pc = "insert_providers"
    /\ UNCHANGED <<t4_index_prices, index_data, decision, index_id, runs,
                   index_before, provider_before>>
    /\ LET provider_records == ProviderRecords(index_data, index_id) IN
       IF provider_records = {}
       THEN /\ EndRun("ok", "true")
            /\ UNCHANGED t4_provider_prices
       ELSE \E insert_ok \in BOOLEAN :
              IF insert_ok
              THEN /\ t4_provider_prices' = t4_provider_prices \cup provider_records
                   /\ EndRun("ok", "true")
              ELSE /\ EndRun("connect_error", "false")
                   /\ UNCHANGED t4_provider_prices

(***************************************************************************)
(* Specifications.                                                         *)
(***************************************************************************)
\* the store is empty or holds what an earlier accepted push left
InitStore ==
    /\ t4_index_prices \in {<<>>, <<[id |-> 1, index_price |-> 50]>>}
    /\ t4_provider_prices = {}

InitPush ==
    /\ pc = "idle"
    /\ index_data = NoData
    /\ decision = "none"
    /\ index_id = 0
    /\ result = "none"
    /\ exit_code = -1
    /\ cause = "none"
    /\ runs = 0
    /\ index_before = t4_index_prices
    /\ provider_before = t4_provider_prices
    /\ outcomes = {}

InitOracle ==
    /\ chain_txs = <<>>
    /\ audit_log = <<>>
    /\ opc = "idle"
    /\ args = NoArgs
    /\ price = NoPrice
    /\ reg_checked = FALSE
    /\ verified = FALSE
    /\ log_write = "none"
    /\ oexit = -1
    /\ ocause = "none"
    /\ oruns = 0
    /\ txs_before = 0
    /\ log_before = <<>>
    /\ log_calls = 0
    /\ logged = <<>>

\* the calculator has not run
InitCalc ==
    /\ cpc = "idle"
    /\ prices = <<>>
    /\ hyperscaler_data = <<>>
    /\ hs_weighted_sum = FZero
    /\ hs_weight_used = FZero
    /\ neocloud_data = <<>>
    /\ nc_weighted_sum = FZero
    /\ nc_weight_used = FZero
    /\ final_index = FZero
    /\ report_before = report_file

\* no observation file and no report in the working directory
InitNoFiles ==
    /\ combined_file = NoCombinedFile
    /\ price_files = <<>>
    /\ report_file = <<>>

\* the durable-store publisher
Init ==
    /\ InitStore
    /\ InitPush
    /\ InitOracle
    /\ InitNoFiles
    /\ InitCalc
    /\ asset_registered = TRUE
    /\ chain_price = FZero

Next ==
    \/ main_load
    \/ push_connect
    \/ push_validate
    \/ push_insert_index
    \/ push_insert_providers

Spec == Init /\ [][Next]_vars

\* the oracle updater: the store holds what earlier publish runs left, the asset is
\* registered or not, the oracle holds a price or none
InitChain ==
    /\ InitStore
    /\ InitPush
    /\ InitOracle
    /\ InitNoFiles
    /\ InitCalc
    /\ asset_registered \in BOOLEAN
    /\ chain_price \in {FZero, PriceScaled(50)}

NextOracle ==
    \/ oracle_start
    \/ oracle_init
    \/ oracle_read_only
    \/ oracle_price
    \/ oracle_send
    \/ oracle_confirm

SpecOracle == InitChain /\ [][NextOracle]_vars

\* the audit log under repeated calls of _log_update
InitLog == Init /\ t4_index_prices = <<>>

NextLog == log_update_call

SpecLog == InitLog /\ [][NextLog]_vars

\* the calculator: the working directory holds a combined file (and the Vast.ai
\* file), or no usable combined file and any of the individual files
InitFiles ==
    \/ /\ combined_file \in {[state |-> "ok", prices |-> ps] : ps \in CombinedPrices(1)}
       /\ price_files = <<FileSlots[5]>>
       /\ report_file = <<>>
    \/ /\ combined_file \in {[state |-> st, prices |-> <<>>] :
                                st \in {"missing", "unreadable", "no_prices"}}
       /\ price_files \in FileLists(1)
       /\ report_file \in {<<>>, <<OldReport>>}
    \/ /\ combined_file \in {[state |-> "ok", prices |-> ps] : ps \in ScenarioPrices}
       /\ price_files = <<FileSlots[5]>>
       /\ report_file = <<>>
    \/ /\ combined_file = NoCombinedFile
       /\ price_files \in ScenarioFiles
       /\ report_file = <<>>

InitCalculator ==
    /\ InitStore
    /\ t4_index_prices = <<>>
    /\ InitPush
    /\ InitOracle
    /\ asset_registered = TRUE
    /\ chain_price = FZero
    /\ InitFiles
    /\ InitCalc

NextCalc ==
    \/ calc_load
    \/ calc_hyperscalers
    \/ calc_neoclouds
    \/ calc_report

SpecCalc == InitCalculator /\ [][NextCalc]_vars

\* the pipeline: one calculator run in a working directory with a combined file (or
\* none), and publish runs that read the report it leaves
PipelinePrices ==
    {<<[provider |-> AWS, price_val |-> S_1_00], [provider |-> Azure, price_val |-> S_1_50],
       [provider |-> GCP, price_val |-> S_1_20], [provider |-> VastAi, price_val |-> S_0_12]>>,
     <<[provider |-> AWS, price_val |-> S_1_00], [provider |-> VastAi, price_val |-> S_0_12]>>,
     <<[provider |-> VastAi, price_val |-> S_0_12], [provider |-> RunPod, price_val |-> S_0_30]>>,
     <<[provider |-> VastAi, price_val |-> S_0_01_hr]>>}

InitPipeline ==
    /\ InitStore
    /\ InitPush
    /\ InitOracle
    /\ asset_registered = TRUE
    /\ chain_price = FZero
    /\ combined_file \in {NoCombinedFile}
                          \cup {[state |-> "ok", prices |-> ps] : ps \in PipelinePrices}
    /\ price_files = <<>>
    /\ report_file = <<>>
    /\ InitCalc

NextPipeline ==
    \/ calc_load
    \/ calc_hyperscalers
    \/ calc_neoclouds
    \/ calc_report
    \/ main_load_report
    \/ push_connect
    \/ push_validate
    \/ push_insert_index
    \/ push_insert_providers

SpecPipeline == InitPipeline /\ [][NextPipeline]_vars

(***************************************************************************)
(* Properties.                                                             *)
(***************************************************************************)
\* what the gate of this run compared against: the latest row when the run started
PrevRow == LatestIndexRow(index_before)

\* 0.80 * p <= n <= 1.20 * p in exact arithmetic, p and n in cents
ExactWithin(p, n) == 80 * p <= 100 * n /\ 100 * n <= 120 * p

\* C1: when a previous index price p exists, the gate accepts the new price n if and
\* only if 0.80*p <= n <= 1.20*p, both bounds inclusive.
C1_DriftRule ==
    (decision # "none" /\ PrevRow # <<>>)
        => (decision = "accepted" <=> ExactWithin(PrevRow[1].index_price, index_data.price))

\* C2: no value reaches a sink ungated: every index row written in this run and every
\* updatePrice transaction sent in this run carries a value the Publish Gate accepts
\* against the last accepted (stored) value.
C2_GatedSinks ==
    /\ \A i \in 1..Len(t4_index_prices) :
          i > Len(index_before)
            => PublishGate(LatestIndexRow(SubSeq(t4_index_prices, 1, i - 1)),
                           t4_index_prices[i].index_price)
    /\ \A i \in 1..Len(chain_txs) :
          i > txs_before
            => PublishGate(LatestIndexRow(t4_index_prices), chain_txs[i].price_usd)

\* C3: when the gate rejects, the run ends there: push_to_supabase returns False
\* and both tables are as they were when the run started.
C3_RejectAborts ==
    decision = "rejected"
        => /\ pc = "done"
           /\ result = "false"
           /\ t4_index_prices = index_before
           /\ t4_provider_prices = provider_before

C3_Witness ==
    /\ decision = "rejected"
    /\ pc = "done"
    /\ index_before # <<>>
    /\ index_data.price = 61
    /\ PrevRow[1].index_price = 50

\* C4: with no previous index row the gate accepts whatever price the report
\* carries: a gate decision taken on an empty store is an acceptance.
C4_Bootstrap ==
    (decision # "none" /\ index_before = <<>>) => decision = "accepted"

C4_Witness ==
    /\ index_before = <<>>
    /\ decision = "accepted"
    /\ index_data.price = 90
    /\ Len(t4_index_prices) = 1
    /\ t4_index_prices[1].index_price = 90

\* C5: provider rows are written only after the index insert of the same run
\* succeeded, and each of them references the id of that index row; a run whose
\* index insert did not succeed writes no provider row.
C5_SnapshotFirst ==
    /\ \A r \in t4_provider_prices \ provider_before :
          /\ index_id # 0
          /\ r.index_id = index_id
          /\ index_id > Len(index_before)
          /\ index_id <= Len(t4_index_prices)
          /\ t4_index_prices[index_id].id = index_id
    /\ index_id = 0 => t4_provider_prices = provider_before
    /\ cause = "insert_failed" => t4_provider_prices = provider_before

C5_Witness ==
    /\ pc = "done"
    /\ index_id = 2
    /\ Len(index_before) = 1
    /\ \E r \in t4_provider_prices \ provider_before : r.index_id = 2

\* C6: a push that ends on a store failure leaves neither its index row nor any of
\* its provider rows in the store.
C6_NoPartialWrite ==
    (pc = "done" /\ cause = "connect_error")
        => /\ t4_index_prices = index_before
           /\ t4_provider_prices = provider_before

\* C7: an updatePrice transaction is sent only after isAssetRegistered returned true
\* in the same run; when the asset is not registered the run exits non-zero, sends
\* no transaction and writes no audit-log entry.
C7_RegisteredFirst ==
    /\ Len(chain_txs) > txs_before => reg_checked
    /\ (oruns > 0 /\ ~asset_registered)
          => /\ Len(chain_txs) = txs_before
             /\ audit_log = log_before
             /\ opc = "done" => oexit = 1

C7_Witness ==
    /\ opc = "done"
    /\ ocause = "not_registered"
    /\ ~args.read_only
    /\ args.price = 50
    /\ oexit = 1

\* the price update of this run was transmitted and applied
Applied ==
    /\ Len(chain_txs) > txs_before
    /\ chain_txs[Len(chain_txs)].status = "success"
    /\ chain_price = PriceScaled(price)

\* C8: a publish run exits 0 only when the price update was transmitted and applied
\* and exits non-zero on every failure.
C8_ExitCode ==
    (opc = "done" /\ ~args.read_only) => (oexit = 0 <=> Applied)

\* the systemic outcomes of the durable-store publish step
Systemic == {"ok", "no_data", "rejected", "connect_error"}

\* C9: success, no data, drift rejection and store failure are told apart by what
\* the publish step hands its caller (return value, exit status).
C9_DistinctFailures ==
    \A a, b \in outcomes :
        (a[1] \in Systemic /\ b[1] \in Systemic /\ a[1] # b[1])
            => <<a[2], a[3]>> # <<b[2], b[3]>>

\* the last min(Len(s), n) elements of s, in order
Newest(s, n) ==
    LET k == IF Len(s) <= n THEN Len(s) ELSE n
    IN  [i \in 1..k |-> s[Len(s) - k + i]]

EntriesOf(h) == {i \in 1..Len(audit_log) : audit_log[i].tx_hash = h}

\* the transactions this run broadcast
SentThisRun == (txs_before + 1)..Len(chain_txs)

\* C11: every update transaction that was broadcast has exactly one audit-log entry
\* once the run is over, whether it was verified, unverified or never confirmed
C11_EverySubmissionLogged ==
    opc = "done" => \A h \in SentThisRun : Cardinality(EntriesOf(h)) = 1

\* the run got a receipt and the value read back differs from the submitted one
Mismatch ==
    /\ opc = "done"
    /\ SentThisRun # {}
    /\ chain_txs[Len(chain_txs)].status # "pending"
    /\ ~verified

\* C12: after a read-back mismatch exactly one transaction was sent (nothing
\* compensates it), _log_update was called with the submitted price (the entry is
\* the newest of the file when the write succeeded) and the command exits 0
C12_MismatchWarnsOnly ==
    Mismatch =>
        /\ Len(chain_txs) = txs_before + 1
        /\ log_write # "none"
        /\ log_write = "ok" =>
              /\ audit_log # <<>>
              /\ audit_log[Len(audit_log)].index_price_usd = price
              /\ audit_log[Len(audit_log)].index_price_scaled = chain_txs[Len(chain_txs)].newPrice
              /\ audit_log[Len(audit_log)].tx_hash = Len(chain_txs)
              /\ SubSeq(audit_log, 1, Len(audit_log) - 1) = log_before
        /\ oexit = 0
        /\ ocause = "updated"

C12_Witness ==
    /\ Mismatch
    /\ chain_txs[Len(chain_txs)].status = "success"
    /\ chain_price = chain_txs[Len(chain_txs)].newPrice
    /\ log_write = "ok"
    /\ Len(audit_log) = 1

\* C13: with --read-only no transaction is sent and the audit log is not touched,
\* whatever --price and the CSV hold, and once the updater is constructed the
\* command ends with exit status 0
C13_ReadOnlyNeverWrites ==
    args.read_only =>
        /\ opc \notin {"send", "confirm"}
        /\ chain_txs = SubSeq(chain_txs, 1, txs_before)
        /\ audit_log = log_before
        /\ log_write = "none"
        /\ (opc = "done" /\ reg_checked) => (oexit = 0 /\ ocause = "read_only")

C13_Witness ==
    /\ args.read_only
    /\ args.price \in OraclePrices \ {0}
    /\ args.csv.state = "ok"
    /\ opc = "done"
    /\ oexit = 0

\* the next double above x > 0
FSucc(x) == FRoundUp(x.m, x.e)

\* x and y are at most k doubles apart
RECURSIVE FNear(_, _, _)
FNear(x, y, k) ==
    \/ x = y
    \/ /\ k > 0
       /\ ~IsFZero(x)
       /\ ~IsFZero(y)
       /\ FNear(FSucc(x), y, k - 1) \/ FNear(x, FSucc(y), k - 1)

\* the normalized weights of the first n neoclouds, added up as floats
RECURSIVE NormWeightSum(_, _, _)
NormWeightSum(data, used, n) ==
    IF n = 0 THEN FZero
    ELSE FAdd(NormWeightSum(data, used, n - 1), NormWeight(data[n].v.raw_weight, used))

\* the average of the first n neocloud prices under the normalized weights
RECURSIVE NormWeightedAverage(_, _, _)
NormWeightedAverage(data, used, n) ==
    IF n = 0 THEN FZero
    ELSE FAdd(NormWeightedAverage(data, used, n - 1),
              FMul(data[n].v.price, NormWeight(data[n].v.raw_weight, used)))

NcCount == Len(neocloud_data)

\* C14 as stated: the normalized weights of the present neoclouds sum to exactly 1
\* and the neocloud component is 0.35 times their normalized-weighted average; with
\* no neocloud the component is 0
C14_WeightsSumExactlyOne ==
    cpc \in {"report", "done"} =>
        IF neocloud_data = <<>> THEN nc_weighted_sum = FZero
        ELSE /\ NormWeightSum(neocloud_data, nc_weight_used, NcCount) = FOne
             /\ nc_weighted_sum =
                    FMul(neocloud_total_weight,
                         NormWeightedAverage(neocloud_data, nc_weight_used, NcCount))

\* C14 amended: the normalized weights of the present neoclouds sum to 1 up to the
\* rounding of the float operations (at most 2 doubles away from 1.0), the neocloud
\* component is 0.35 times their normalized-weighted average up to rounding, and
\* with no neocloud the component is 0
C14_WeightsSumToOne ==
    cpc \in {"report", "done"} =>
        IF neocloud_data = <<>> THEN nc_weighted_sum = FZero
        ELSE /\ FNear(NormWeightSum(neocloud_data, nc_weight_used, NcCount), FOne, 2)
             /\ FNear(nc_weighted_sum,
                      FMul(neocloud_total_weight,
                           NormWeightedAverage(neocloud_data, nc_weight_used, NcCount)), 4)

\* a registered and a defaulted neocloud are present and the float sum of their
\* normalized weights is not 1.0
C14_Witness ==
    /\ cpc = "done"
    /\ NcCount >= 2
    /\ DictHas(neocloud_data, AlibabaCloud)
    /\ DictHas(neocloud_data, RunPod)
    /\ DictGet(neocloud_data, RunPod).raw_weight = FloatOfCents(5)
    /\ NormWeightSum(neocloud_data, nc_weight_used, NcCount) # FOne

\* the average of the first n hyperscalers' effective prices under their relative
\* weights rescaled to sum to 1
RECURSIVE RescaledAverage(_, _, _)
RescaledAverage(data, used, n) ==
    IF n = 0 THEN FZero
    ELSE FAdd(RescaledAverage(data, used, n - 1),
              FMul(data[n].v.effective, FDiv(data[n].v.weight, used)))

HsCount == Len(hyperscaler_data)

HsLoopDone == cpc \in {"neoclouds", "report", "done"}

\* C15 as stated: with a non-empty proper subset of the hyperscalers present the
\* renormalized hs_sum equals 0.65 times the rescaled-weight average of the effective
\* prices, and with one hyperscaler it equals effective_price * 0.65
C15_RenormalizationCancelsExactly ==
    (HsLoopDone /\ 0 < HsCount /\ HsCount < Len(hyperscalers)) =>
        /\ hs_weighted_sum =
               FMul(hyperscaler_total_weight,
                    RescaledAverage(hyperscaler_data, hs_weight_used, HsCount))
        /\ HsCount = 1 =>
               hs_weighted_sum =
                   FMul(hyperscaler_data[1].v.effective, hyperscaler_total_weight)

\* C15 amended: the same equalities up to the rounding of the float operations
\* (at most 4 doubles apart)
C15_RenormalizationCancels ==
    (HsLoopDone /\ 0 < HsCount /\ HsCount < Len(hyperscalers)) =>
        /\ FNear(hs_weighted_sum,
                 FMul(hyperscaler_total_weight,
                      RescaledAverage(hyperscaler_data, hs_weight_used, HsCount)), 4)
        /\ HsCount = 1 =>
               FNear(hs_weighted_sum,
                     FMul(hyperscaler_data[1].v.effective, hyperscaler_total_weight), 4)

\* AWS alone at 1.00: renormalized, and one double away from effective_price * 0.65
C15_Witness ==
    /\ cpc = "done"
    /\ HsCount = 1
    /\ DictHas(hyperscaler_data, AWS)
    /\ hyperscaler_data[1].v.original = FOne
    /\ hs_weight_used = FloatOfCents(45)
    /\ hs_weighted_sum # FMul(hyperscaler_data[1].v.effective, hyperscaler_total_weight)

\* the contributions of the first n hyperscalers, added up as line 205 does
RECURSIVE ContributionSum(_, _)
ContributionSum(data, n) ==
    IF n = 0 THEN FZero
    ELSE FAdd(ContributionSum(data, n - 1), data[n].v.contribution)

Scaled(sum, used) == FMul(sum, FDiv(FOne, used))

\* C16: the hyperscaler sum is scaled by 1 / hs_weight_used exactly when
\* 0 < hs_weight_used < 1: with AWS, Azure and GCP all present hs_weight_used is 1.0
\* and hs_sum is the plain sum of the contributions; with none present
\* hs_weight_used and hs_sum are 0; with one or two present the sum is scaled
C16_ScalingIffPartial ==
    HsLoopDone =>
        LET plain == ContributionSum(hyperscaler_data, HsCount)
        IN  /\ HsCount = Len(hyperscalers) =>
                   hs_weight_used = FOne /\ hs_weighted_sum = plain
            /\ HsCount = 0 =>
                   hs_weight_used = FZero /\ hs_weighted_sum = FZero
            /\ (0 < HsCount /\ HsCount < Len(hyperscalers)) =>
                   /\ FLt(FZero, hs_weight_used) /\ FLt(hs_weight_used, FOne)
                   /\ hs_weighted_sum = Scaled(plain, hs_weight_used)
            /\ hs_weighted_sum # plain =>
                   FLt(FZero, hs_weight_used) /\ FLt(hs_weight_used, FOne)

\* the full set is present and the weights used add up to 1.0
C16_Witness ==
    /\ cpc = "done"
    /\ DictHas(hyperscaler_data, AWS)
    /\ DictHas(hyperscaler_data, Azure)
    /\ DictHas(hyperscaler_data, GCP)
    /\ hs_weight_used = FOne
    /\ hs_weighted_sum = ContributionSum(hyperscaler_data, HsCount)

\* the discount and the relative weight section 4.3 registers for a hyperscaler
RegisteredDiscount(hs) ==
    IF StrEq(hs, AWS) THEN FloatOfCents(44) ELSE FloatOfCents(65)

RegisteredWeight(hs) ==
    IF StrEq(hs, AWS) THEN FloatOfCents(45)
    ELSE IF StrEq(hs, Azure) THEN FloatOfCents(30) ELSE FloatOfCents(25)

\* P * (1 - d) * 0.80 + P * 0.20
BlendOf(P, d) ==
    FAdd(FMul(FMul(P, FSub(FOne, d)), FloatOfCents(80)), FMul(P, FloatOfCents(20)))

\* C17: every hyperscaler in the breakdown carries its observed price P, effective =
\* P * (1 - d) * 0.80 + P * 0.20 for its registered discount d, and contribution =
\* effective * relative weight * 0.65; for AWS (d = 0.44) at P = 1.00 the effective
\* price is 0.648 (the double next to it)
C17_DiscountBlend ==
    HsLoopDone =>
        \A i \in 1..HsCount :
            LET hs == hyperscaler_data[i].k
                en == hyperscaler_data[i].v
            IN  /\ DictHas(prices, hs) => en.original = DictGet(prices, hs)
                /\ en.effective = BlendOf(en.original, RegisteredDiscount(hs))
                /\ en.contribution =
                       FMul(FMul(en.effective, RegisteredWeight(hs)), FloatOfCents(65))
                /\ (StrEq(hs, AWS) /\ en.original = FOne) =>
                       FNear(en.effective, FloatOfDecimal(648, 1000), 1)

\* AWS was observed at 1.00 and its blended entry is in the breakdown
C17_Witness ==
    /\ cpc = "done"
    /\ DictHas(prices, AWS)
    /\ DictGet(prices, AWS) = FOne
    /\ DictHas(hyperscaler_data, AWS)
    /\ DictGet(hyperscaler_data, AWS).effective = BlendOf(FOne, FloatOfCents(44))

ReportWritten == cpc = "done" /\ prices # <<>>

\* the observations are AWS 1.00, Azure 1.50, GCP 1.20 and Vast.ai 0.12
ExampleObservations ==
    /\ Len(prices) = 4
    /\ DictHas(prices, AWS) /\ DictGet(prices, AWS) = FOne
    /\ DictHas(prices, Azure) /\ DictGet(prices, Azure) = FloatOfCents(150)
    /\ DictHas(prices, GCP) /\ DictGet(prices, GCP) = FloatOfCents(120)
    /\ DictHas(prices, VastAi) /\ DictGet(prices, VastAi) = FloatOfCents(12)

\* C18 as stated: the published final_index_price is hs_sum + nc_sum unaltered and
\* is the sum of the published hyperscaler and neocloud components
C18_PublishedUnaltered ==
    ReportWritten =>
        LET report == report_file[1]
        IN  /\ FloatOfCents(report.final_index_price) =
                   FAdd(hs_weighted_sum, nc_weighted_sum)
            /\ report.final_index_price * 100 =
                   report.components.hyperscaler + report.components.neocloud

\* C18 amended: the published final_index_price is hs_sum + nc_sum rounded to 2
\* decimals and the published components are hs_sum and nc_sum rounded to 4
\* decimals, so the price is the sum of the components only to within 0.0051; for
\* the observations AWS 1.00, Azure 1.50, GCP 1.20, Vast.ai 0.12 the report holds
\* 0.47 with components 0.4235 and 0.042
C18_PublishedRounded ==
    ReportWritten =>
        LET report == report_file[1]
            total  == report.components.hyperscaler + report.components.neocloud
        IN  /\ final_index = FAdd(hs_weighted_sum, nc_weighted_sum)
            /\ report.final_index_price = RoundDec(final_index, 100)
            /\ report.components.hyperscaler = RoundDec(hs_weighted_sum, 10000)
            /\ report.components.neocloud = RoundDec(nc_weighted_sum, 10000)
            /\ report.final_index_price * 100 - total \in -51..51
            /\ ExampleObservations =>
                   /\ report.final_index_price = 47
                   /\ report.components.hyperscaler = 4235
                   /\ report.components.neocloud = 420

\* the example run has written its report: 0.47, not 0.46554
C18_Witness ==
    /\ ReportWritten
    /\ ExampleObservations
    /\ report_file[1].final_index_price = 47
    /\ FloatOfCents(47) # final_index

\* the price strings of the model whose value is 0 or negative
NonPositiveStrings == {S_0, S_0_00_hr, S_m0_50}

\* the combined file gave the observations of the run (else the single files did)
CombinedUsed ==
    /\ combined_file.state = "ok"
    /\ LoadCombined(combined_file.prices, 1, <<>>) # <<>>

Entered(p) ==
    \/ DictHas(prices, p)
    \/ DictHas(hyperscaler_data, p)
    \/ DictHas(neocloud_data, p)

\* C19: a provider whose price in the source the run loads is 0 or negative ("0",
\* "$0.00/hr", "-0.50") is absent from the loaded observations and from both
\* breakdowns, so it adds to neither hs_sum nor nc_sum
C19_NonPositiveNeverEnters ==
    cpc = "done" =>
        IF CombinedUsed
        THEN \A i \in 1..Len(combined_file.prices) :
                 combined_file.prices[i].price_val \in NonPositiveStrings =>
                     ~Entered(normalize_provider_name(combined_file.prices[i].provider))
        ELSE \A i \in 1..Len(price_files) :
                 LET f == price_files[i]
                 IN  (/\ f.readable
                      /\ f.has_provider
                      /\ f.prices # <<>>
                      /\ \A j \in 1..Len(f.prices) : f.prices[j] \in NonPositiveStrings) =>
                         ~Entered(normalize_provider_name(f.provider))

\* a snapshot with final index 0, both components 0 and an empty breakdown
ZeroSnapshot == Report(FZero, FZero, <<>>, <<>>)

\* C20: a run whose loader finds no usable observation ends without failing and its
\* output is the zero-valued snapshot
C20_NoDataZeroSnapshot ==
    (cpc = "done" /\ prices = <<>>) => report_file = <<ZeroSnapshot>>

\* a publish run has stored the report the calculator run wrote
ReportPublished ==
    /\ ReportWritten
    /\ pc = "done"
    /\ cause = "ok"
    /\ index_id # 0
    /\ index_data = load_index_data(report_file)

\* the rows the publish run stored for the provider name
RowsFor(name) ==
    {r \in t4_provider_prices : r.index_id = index_id /\ r.provider_name = name}

\* what the neocloud entry en added to nc_sum
NcContribution(en) ==
    FMul(FMul(en.price, NormWeight(en.raw_weight, nc_weight_used)), neocloud_total_weight)

\* C21: every provider that contributes to the index has an entry in the report's
\* breakdown holding its original price, effective price, applied weight and
\* contribution, and its row in the durable store carries the same values
C21_AuditableBreakdown ==
    ReportPublished =>
        /\ \A i \in 1..HsCount :
               LET en == hyperscaler_data[i].v
               IN  /\ DictHas(report_file[1].details.hyperscalers, hyperscaler_data[i].k)
                   /\ {"original", "effective", "weight", "contribution"} \subseteq DOMAIN en
                   /\ \E r \in RowsFor(hyperscaler_data[i].k) :
                          /\ r.original_price = en.original
                          /\ r.effective_price = en.effective
                          /\ r.relative_weight = en.weight
                          /\ r.weighted_contribution = en.contribution
        /\ \A i \in 1..NcCount :
               LET en == neocloud_data[i].v
               IN  /\ DictHas(report_file[1].details.neoclouds, neocloud_data[i].k)
                   /\ "contribution" \in DOMAIN DictGet(report_file[1].details.neoclouds,
                                                        neocloud_data[i].k)
                   /\ \E r \in RowsFor(neocloud_data[i].k) :
                          /\ r.original_price = en.price
                          /\ r.effective_price = en.price
                          /\ r.relative_weight = NormWeight(en.raw_weight, nc_weight_used)
                          /\ r.weighted_contribution = NcContribution(en)

\* the key is that of a registered hyperscaler
IsHyperscalerKey(k) == StrEq(k, AWS) \/ StrEq(k, Azure) \/ StrEq(k, GCP)

\* the name marks the aggregator's or an average entry
IsPseudoEntry(k) == Contains(GetDeploying, k) \/ Contains(Average, k)

Keys(d) == [i \in 1..Len(d) |-> d[i].k]

NcLoopDone == cpc \in {"report", "done"}

DeclaredAliases ==
    <<<<GoogleCloud, GCP>>, <<Google, GCP>>, <<AmazonWebServices, AWS>>,
      <<Alibaba, AlibabaCloud>>, <<Tencent, TencentCloud>>, <<Thunder, ThunderCompute>>>>

\* the aliases that equal the raw name or occur in it, letter case ignored
MatchingAliases(raw) ==
    {i \in 1..Len(DeclaredAliases) :
        \/ lower(raw) = lower(DeclaredAliases[i][1])
        \/ Contains(lower(DeclaredAliases[i][1]), lower(raw))}

\* the canonical value of the earliest-declared matching alias, else the raw name
FirstMatch(raw) ==
    IF MatchingAliases(raw) = {} THEN raw
    ELSE DeclaredAliases[CHOOSE i \in MatchingAliases(raw) :
                            \A j \in MatchingAliases(raw) : i <= j][2]

\* the i-th entry of the combined file is loaded: no entry up to it stops the loop
\* and its price is positive
CombinedLoads(i) ==
    /\ \A j \in 1..i : ~parse_price(combined_file.prices[j].price_val).raises
    /\ FLt(FZero, parse_price(combined_file.prices[i].price_val).value)

JustLoaded == cpc = "hyperscalers"

\* C23: every loaded entry is filed under the canonical value of the earliest-declared
\* alias that equals its raw name or occurs in it (letter case ignored), or under its
\* raw name when no alias matches, and every key of the loaded map arises so
C23_FirstMatchNormalization ==
    (JustLoaded /\ CombinedUsed) =>
        /\ \A i \in 1..Len(combined_file.prices) :
               CombinedLoads(i) => DictHas(prices, FirstMatch(combined_file.prices[i].provider))
        /\ \A k \in 1..Len(prices) :
               \E i \in 1..Len(combined_file.prices) :
                   CombinedLoads(i) /\ prices[k].k = FirstMatch(combined_file.prices[i].provider)

\* "Alibaba/Google" (the alias Google is declared before Alibaba) was filed under
\* GCP, "amazon web services" under AWS and RunPod under its own name
C23_Witness ==
    /\ JustLoaded
    /\ Len(combined_file.prices) = 3
    /\ combined_file.prices[1].provider = AlibabaGoogle
    /\ combined_file.prices[2].provider = amazon_web_services
    /\ Keys(prices) = <<GCP, AWS, RunPod>>

\* the file is tagged as the combined or the aggregator's file
Tagged(f) == Contains(combined, f.stem) \/ Contains(getdeploying, f.stem)

\* the provider a single file stands for
FileProvider(f) ==
    normalize_provider_name(IF f.has_provider THEN f.provider
                            ELSE Title(Remove(f.stem, T4PricesSuffix, 1)))

\* the file yields an observation: readable, not tagged, with a positive price
FileLoads(f) ==
    /\ f.readable
    /\ ~Tagged(f)
    /\ ~FilePrice(f.prices, 1).raises
    /\ FLt(FZero, FilePrice(f.prices, 1).value)

LoadDone == cpc = "hyperscalers" \/ (cpc = "done" /\ prices = <<>>)

\* C24: when the combined file yields an observation the loaded map holds exactly
\* the providers of its loaded entries and nothing from a single file; otherwise it
\* holds exactly the providers of the single files that yield an observation, and
\* never one of a file tagged combined or getdeploying
C24_SourcePreference ==
    LoadDone =>
        IF CombinedUsed
        THEN /\ \A k \in 1..Len(prices) :
                    \E i \in 1..Len(combined_file.prices) :
                        /\ CombinedLoads(i)
                        /\ prices[k].k =
                               normalize_provider_name(combined_file.prices[i].provider)
                        /\ prices[k].v = parse_price(combined_file.prices[i].price_val).value
             /\ \A i \in 1..Len(combined_file.prices) :
                    CombinedLoads(i) =>
                        DictHas(prices, normalize_provider_name(combined_file.prices[i].provider))
        ELSE /\ \A k \in 1..Len(prices) :
                    \E i \in 1..Len(price_files) :
                        /\ FileLoads(price_files[i])
                        /\ prices[k].k = FileProvider(price_files[i])
                        /\ prices[k].v = FilePrice(price_files[i].prices, 1).value
             /\ \A i \in 1..Len(price_files) :
                    FileLoads(price_files[i]) => DictHas(prices, FileProvider(price_files[i]))

\* the combined file gave the observations and the Vast.ai file next to it, which
\* holds a usable price, added nothing
C24_Witness ==
    /\ cpc = "hyperscalers"
    /\ CombinedUsed
    /\ Len(price_files) = 1
    /\ FileLoads(price_files[1])
    /\ FileProvider(price_files[1]) = VastAi
    /\ ~DictHas(prices, VastAi)

\* the price string of the i-th entry of the combined file is a positive number
CombinedValid(i) ==
    /\ ~parse_price(combined_file.prices[i].price_val).raises
    /\ FLt(FZero, parse_price(combined_file.prices[i].price_val).value)

\* C25: a price string without a numeric token, or one that converts to no positive
\* number, costs the combined file only that entry: every entry of the file with a
\* valid price is in the loaded map
C25_MalformedDropsOnlyItself ==
    (LoadDone /\ combined_file.state = "ok") =>
        \A i \in 1..Len(combined_file.prices) :
            CombinedValid(i) =>
                DictHas(prices, normalize_provider_name(combined_file.prices[i].provider))

\* the entries of the combined file, and the single files, that were loaded under key
CombinedLoadsAs(key) ==
    {i \in 1..Len(combined_file.prices) :
        /\ CombinedLoads(i)
        /\ normalize_provider_name(combined_file.prices[i].provider) = key}

FilesLoadAs(key) ==
    {i \in 1..Len(price_files) :
        FileLoads(price_files[i]) /\ FileProvider(price_files[i]) = key}

Last(S) == CHOOSE i \in S : \A j \in S : j <= i

\* C26: the loaded map holds each canonical key once, with the price of the entry
\* (or file) loaded last among those that normalize to the key
C26_LastWriteWins ==
    LoadDone =>
        /\ \A a, b \in 1..Len(prices) : prices[a].k = prices[b].k => a = b
        /\ \A k \in 1..Len(prices) :
               IF CombinedUsed
               THEN /\ CombinedLoadsAs(prices[k].k) # {}
                    /\ prices[k].v =
                           parse_price(combined_file.prices[
                               Last(CombinedLoadsAs(prices[k].k))].price_val).value
               ELSE /\ FilesLoadAs(prices[k].k) # {}
                    /\ prices[k].v =
                           FilePrice(price_files[Last(FilesLoadAs(prices[k].k))].prices,
                                     1).value

\* "GCP" at 1.20 and, after it, "Google Cloud" at 1.50 were loaded: GCP holds 1.50
C26_Witness ==
    /\ cpc = "hyperscalers"
    /\ Len(combined_file.prices) >= 2
    /\ combined_file.prices[1] = [provider |-> GCP, price_val |-> S_1_20]
    /\ combined_file.prices[2] = [provider |-> GoogleCloud, price_val |-> S_1_50]
    /\ DictGet(prices, GCP) = FloatOfCents(150)

\* C27: every index row but the first lies within 0.80 and 1.20 times the row stored
\* immediately before it, and a run's gate decision depends on nothing but the last
\* row stored when the run started and the new price
C27_ChainInvariant ==
    /\ \A i \in 2..Len(t4_index_prices) :
           ExactWithin(t4_index_prices[i - 1].index_price, t4_index_prices[i].index_price)
    /\ (decision # "none" /\ index_before # <<>>) =>
           (decision = "accepted" <=>
               WithinTolerance(index_before[Len(index_before)].index_price,
                               index_data.price))

\* three rows 0.50, 0.60, 0.61: the third is within 20% of the second but not of
\* the first
C27_Witness ==
    /\ Len(t4_index_prices) = 3
    /\ t4_index_prices[1].index_price = 50
    /\ t4_index_prices[2].index_price = 60
    /\ t4_index_prices[3].index_price = 61
    /\ ~ExactWithin(50, 61)

\* the observed key whose price the hyperscaler loop used for hs: the canonical key,
\* else the first key that holds the name (fallback join)
JoinedKey(hs) ==
    IF DictHas(prices, hs) THEN hs
    ELSE prices[CHOOSE i \in 1..Len(prices) :
                   /\ Contains(lower(hs), lower(prices[i].k))
                   /\ \A j \in 1..(i - 1) : ~Contains(lower(hs), lower(prices[j].k))].k

\* C28: no observed key is used twice: the key whose price entered the hyperscaler
\* component for some hyperscaler is not among the neoclouds
C28_NoDoubleCounting ==
    NcLoopDone =>
        \A i \in 1..HsCount :
            ~DictHas(neocloud_data, JoinedKey(hyperscaler_data[i].k))

\* C29: whatever calculator and publish runs have taken place, every index row of
\* the durable store holds a strictly positive price
C29_StoredPricesPositive ==
    \A i \in 1..Len(t4_index_prices) : t4_index_prices[i].index_price > 0

\* the contribution a breakdown entry records (none recorded: nothing to add)
Recorded(en) == IF "contribution" \in DOMAIN en THEN en.contribution ELSE FZero

\* the recorded contributions of the first n entries of a breakdown, added up
RECURSIVE RecordedSum(_, _)
RecordedSum(data, n) ==
    IF n = 0 THEN FZero ELSE FAdd(RecordedSum(data, n - 1), Recorded(data[n].v))

\* C30: at the precision of the report, the contributions recorded for the
\* hyperscalers add up to the reported hyperscaler component, and the contributions
\* recorded for all providers add up to the final index
C30_BreakdownReconstructsIndex ==
    ReportWritten =>
        LET report == report_file[1]
            hs     == RecordedSum(report.details.hyperscalers,
                                  Len(report.details.hyperscalers))
            nc     == RecordedSum(report.details.neoclouds, Len(report.details.neoclouds))
        IN  /\ RoundDec(hs, 10000) = report.components.hyperscaler
            /\ RoundDec(FAdd(hs, nc), 100) = report.final_index_price
====
